---- MODULE Spec2Model ----
(***************************************************************************)
(* Model of assets/js/main.js of the Electro Power site: the rate-limiting *)
(* wrappers utils.throttle and utils.debounce, the ProductTabs catalog     *)
(* renderer, MobileNav.toggleMenu, the FormHandler consultation form with  *)
(* its notifications, and the ElectroPowerApp composer and public API.     *)
(*                                                                         *)
(* Time is the value of Date.now() in milliseconds.  The event loop is     *)
(* modelled with handlers that take no time: a timer set by                *)
(* setTimeout(cb, d) becomes due at now + max(d, 0) and the clock does not *)
(* advance past a due timer; an event arriving in the very millisecond a   *)
(* timer is due may be handled before or after the timer callback.         *)
(***************************************************************************)
EXTENDS Integers, Sequences, FiniteSets, TLC

VARIABLES
    now,        \* Date.now()
    timers,     \* pending setTimeout timers: records [id, due, args]
    nextId,     \* next timer id handed out by setTimeout
    calls,      \* history: calls made to the wrapped callback, [t, args]
    execLog,    \* history: executions of func, [t, args, sync, n]
    script,     \* scenario specifications: the calls still to be made, [at, args]
    horizon,    \* the clock runs from Epoch to Epoch + horizon
    limit,      \* throttle: the `limit` parameter
    lastFunc,   \* throttle: closure variable, id of the last timer set
    lastRan,    \* throttle: closure variable, time func last ran
    wait,       \* debounce: the `wait` parameter
    immediate,  \* debounce: the `immediate` parameter
    timeout,    \* debounce: closure variable, timer id / null / undefined
    tabActive,  \* DOM: the tab controls carrying the class 'active'
    gridPresent,\* DOM: the markup has a .models-grid element
    grid,       \* DOM: the children of .models-grid, in order
    started,    \* initializeComponents has run
    components, \* ElectroPowerApp.components: the widgets stored in it
    tabsBound,  \* ProductTabs.bindEvents has attached the click listeners
    errorLogged,\* console.error was called by initializeComponents
    loaded,     \* document.body carries the class 'loaded'
    failed,     \* history: the widget whose constructor threw, or "none"
    selected,   \* history: loadTabContent has been called
    lastKey,    \* history: the key of the last loadTabContent call
    lastClicked,\* history: the tab control clicked last, or "none"
    threw,      \* history: the last tab selection ended with an uncaught exception
    prevGrid,   \* history: the children of .models-grid before the last selection
    initialActive, \* history: the tab controls marked active in the markup
    tabsPresent,\* DOM: the markup has the .tab-button elements
    formPresent,\* DOM: the markup has a .consultation-form element
    inputsPresent, \* DOM: the form has its text and tel inputs
    submitBtnPresent, \* DOM: the form has a button[type="submit"]
    resetClobbered, \* DOM: a control of the form is named "reset"
    formBound,  \* FormHandler.bindEvents has attached the submit listener
    nameField,  \* DOM: value of the name input
    phoneField, \* DOM: value of the phone input
    btnText,    \* DOM: textContent of the submit button
    btnDisabled,\* DOM: the submit button is disabled
    notes,      \* the notification elements created so far, in order
    submits,    \* history: the submit events handled so far, in order
    closes,     \* history: number of clicks on notification close buttons
    navListPresent,    \* DOM: the markup has a .nav-list element
    menuTogglePresent, \* DOM: the markup has a .mobile-menu-toggle element
    navListActive,     \* DOM: .nav-list carries the class 'active'
    menuToggleActive,  \* DOM: .mobile-menu-toggle carries the class 'active'
    nullDeref,  \* history: the last handler threw on a missing element
    lastOp,     \* history: the operation that ran last
    opThrew,    \* history: the operation that ran last ended with an uncaught exception
    selectedBy, \* history: what made the last tab selection: "click", "api", "default"
    scrollThrottle, \* AutoScroll: lastFunc and lastRan of the throttled scroll handler
    resizeThrottle, \* AutoScroll: lastFunc and lastRan of the throttled resize handler
    scrollDom,  \* DOM: window scroll position, indicator width, back-to-top shown, animated sections
    navLinkActive, \* DOM: the .nav-link elements carrying the class 'active'
    events      \* history: user events counted by the site specification

timeVars     == <<now, timers, nextId, calls, execLog, script, horizon>>
throttleVars == <<limit, lastFunc, lastRan>>
debounceVars == <<wait, immediate, timeout>>
domVars      == <<tabActive, gridPresent, grid, tabsPresent>>
appVars      == <<started, components, tabsBound, errorLogged, loaded, failed>>
histVars     == <<selected, lastKey, lastClicked, threw, prevGrid, initialActive, nullDeref, lastOp, opThrew, selectedBy>>
markupVars   == <<formPresent, inputsPresent, submitBtnPresent, resetClobbered>>
formVars     == <<markupVars, formBound, nameField, phoneField, btnText, btnDisabled,
                  submits>>
noteVars     == <<notes, closes>>
menuVars     == <<navListPresent, menuTogglePresent, navListActive, menuToggleActive>>
scrollVars   == <<scrollThrottle, resizeThrottle, scrollDom, navLinkActive>>
siteVars     == <<scrollVars, events>>
pageVars     == <<domVars, appVars, histVars, formVars, noteVars, menuVars, siteVars>>

----------------------------------------------------------------------------
(* Bounds of the exploration *)
Epoch    == 1     \* Date.now() when the page starts (positive in any browser)
MaxTime  == 7     \* the clock runs from Epoch to Epoch + MaxTime
MaxCalls == 4     \* number of calls made to a wrapped callback
MaxParam == 3     \* largest limit / wait explored
MaxEvents   == 2      \* user events on the form: submits and clicks on close buttons
Step        == 500   \* longest leap of the clock of the form specification
FormHorizon == 6500   \* the clock of the form specification stops here

Args == {"x", "y"}          \* arguments a call may carry

\* JavaScript values that are not numbers
Undefined == -1
Null      == -2
Falsy(v)  == v = Undefined \/ v = Null \/ v = 0

Max(a, b) == IF a >= b THEN a ELSE b

----------------------------------------------------------------------------
(* Timers: setTimeout / clearTimeout *)

\* setTimeout(cb, delay) at time t: a negative delay is treated as 0
NewTimer(id, t, delay, args) == [id |-> id, due |-> t + Max(delay, 0), args |-> args]

\* mutant: clearTimeout cancels nothing
ClearTimeoutNoop(ts, id) == ts

\* clearTimeout(id): cancels the timer with that id, no-op for any other value
ClearTimeout(ts, id) == {tm \in ts : tm.id # id}

DueTimers == {tm \in timers : tm.due <= now}

\* the clock advances one millisecond when no timer is due and no scripted
\* call is due
Tick ==
    /\ now < Epoch + horizon
    /\ DueTimers = {}
    /\ IF script = <<>> THEN TRUE ELSE now < Epoch + Head(script).at
    /\ now' = now + 1
    /\ UNCHANGED <<timers, nextId, calls, execLog, script, horizon>>
    /\ UNCHANGED <<throttleVars, debounceVars, pageVars>>

Ran(args, sync) == [t |-> now, args |-> args, sync |-> sync, n |-> Len(calls)]

----------------------------------------------------------------------------
(* utils.throttle(func, limit) *)

\* mutant: the synchronous run does not record when it ran
ThrottleInvokeNoStamp(lr, t, lim) ==
    IF Falsy(lr) THEN [ran |-> TRUE,  lastRan |-> lr, delay |-> 0]
                 ELSE [ran |-> FALSE, lastRan |-> lr, delay |-> lim - (t - lr)]

\* body of the returned function, lines 37-48: run now, or the delay of the
\* timer to set
ThrottleInvoke(lr, t, lim) ==
    IF Falsy(lr) THEN [ran |-> TRUE,  lastRan |-> t,  delay |-> 0]
                 ELSE [ran |-> FALSE, lastRan |-> lr, delay |-> lim - (t - lr)]

\* mutant: the timer callback runs func only after more than `limit`
ThrottleLaterStrict(lr, t, lim) ==
    IF (t - lr) > lim THEN [ran |-> TRUE,  lastRan |-> t]
                      ELSE [ran |-> FALSE, lastRan |-> lr]

\* the timer callback of lines 42-47
ThrottleLater(lr, t, lim) ==
    IF (t - lr) >= lim THEN [ran |-> TRUE,  lastRan |-> t]
                       ELSE [ran |-> FALSE, lastRan |-> lr]

\* the returned function, lines 36-49, called with args
ThrottledCall(args) ==
    LET r == ThrottleInvoke(lastRan, now, limit) IN
    /\ calls' = Append(calls, [t |-> now, args |-> args])
    /\ lastRan' = r.lastRan
    /\ IF r.ran
          THEN /\ execLog' = Append(execLog, [t |-> now, args |-> args,
                                              sync |-> TRUE, n |-> Len(calls) + 1])
               /\ UNCHANGED <<timers, nextId, lastFunc>>
          ELSE /\ timers' = ClearTimeout(timers, lastFunc) \cup
                              {NewTimer(nextId, now, r.delay, args)}
               /\ lastFunc' = nextId
               /\ nextId' = nextId + 1
               /\ UNCHANGED execLog
    /\ UNCHANGED <<now, horizon, limit, debounceVars, pageVars>>

\* a call at any time, with any arguments
ThrottleCall ==
    /\ script = <<>>
    /\ Len(calls) < MaxCalls
    /\ \E a \in Args : ThrottledCall(a)
    /\ UNCHANGED script

\* the next call of a scenario, at its time
ThrottleScriptedCall ==
    /\ script # <<>>
    /\ now = Epoch + Head(script).at
    /\ ThrottledCall(Head(script).args)
    /\ script' = Tail(script)

\* a due timer of the throttle runs its callback
ThrottleTimer ==
    \E tm \in DueTimers :
        LET r == ThrottleLater(lastRan, now, limit) IN
        /\ timers' = timers \ {tm}
        /\ lastRan' = r.lastRan
        /\ execLog' = IF r.ran THEN Append(execLog, Ran(tm.args, FALSE)) ELSE execLog
        /\ UNCHANGED <<now, nextId, calls, script, horizon, limit, lastFunc, debounceVars, pageVars>>

NoDebounce == wait = 0 /\ immediate = FALSE /\ timeout = Undefined

\* AutoScroll before any scroll, resize or nav-link click: both throttles as
\* lines 34-35 leave them, nothing shown, nothing counted
NoSiteEvent ==
    /\ scrollThrottle = [lastFunc |-> Undefined, lastRan |-> Undefined]
    /\ resizeThrottle = [lastFunc |-> Undefined, lastRan |-> Undefined]
    /\ scrollDom = [pos |-> "top", width |-> "top", show |-> FALSE, animated |-> {}]
    /\ navLinkActive = {} /\ events = 0

\* the page plays no part in a specification of the wrappers alone
NoPage ==
    /\ NoSiteEvent
    /\ tabActive = {} /\ gridPresent = FALSE /\ grid = <<>>
    /\ started = FALSE /\ components = {} /\ tabsBound = FALSE
    /\ errorLogged = FALSE /\ loaded = FALSE /\ failed = "none"
    /\ selected = FALSE /\ lastKey = "" /\ lastClicked = "none" /\ threw = FALSE
    /\ prevGrid = <<>> /\ initialActive = {}
    /\ tabsPresent = FALSE /\ nullDeref = FALSE /\ lastOp = "none"
    /\ opThrew = FALSE /\ selectedBy = "none"
    /\ formPresent = FALSE /\ inputsPresent = FALSE /\ submitBtnPresent = FALSE
    /\ resetClobbered = FALSE /\ formBound = FALSE
    /\ nameField = "" /\ phoneField = "" /\ btnText = "" /\ btnDisabled = FALSE
    /\ notes = <<>> /\ submits = <<>> /\ closes = 0
    /\ navListPresent = FALSE /\ menuTogglePresent = FALSE
    /\ navListActive = FALSE /\ menuToggleActive = FALSE

ThrottleInit ==
    /\ now = Epoch
    /\ timers = {}
    /\ nextId = 1
    /\ calls = <<>>
    /\ execLog = <<>>
    /\ script = <<>>
    /\ horizon = MaxTime
    /\ limit \in 2..MaxParam
    /\ lastFunc = Undefined
    /\ lastRan = Undefined
    /\ NoDebounce
    /\ NoPage

ThrottleNext == Tick \/ ThrottleCall \/ ThrottleTimer

vars == <<timeVars, throttleVars, debounceVars, pageVars>>

SpecThrottle == ThrottleInit /\ [][ThrottleNext]_vars

\* the scenario of throttle(f, 100) called at t = 0, 10, 50 and 140 ms
ThrottleScenario ==
    [limit |-> 100, horizon |-> 260,
     calls |-> << [at |-> 0, args |-> "p"], [at |-> 10, args |-> "q"],
                  [at |-> 50, args |-> "r"], [at |-> 140, args |-> "s"] >>]

ThrottleScenarioInit ==
    /\ now = Epoch
    /\ timers = {}
    /\ nextId = 1
    /\ calls = <<>>
    /\ execLog = <<>>
    /\ script = ThrottleScenario.calls
    /\ horizon = ThrottleScenario.horizon
    /\ limit = ThrottleScenario.limit
    /\ lastFunc = Undefined
    /\ lastRan = Undefined
    /\ NoDebounce
    /\ NoPage

ThrottleScenarioNext == Tick \/ ThrottleScriptedCall \/ ThrottleTimer

SpecThrottleScenario == ThrottleScenarioInit /\ [][ThrottleScenarioNext]_vars

----------------------------------------------------------------------------
(* Claims about utils.throttle *)

LastOf(seq) == seq[Len(seq)]

\* C1: any two executions of f, synchronous or timer-driven, are at least
\* `limit` milliseconds apart.
C1_ThrottleSpacing ==
    \A i, j \in DOMAIN execLog :
        i < j => execLog[j].t - execLog[i].t >= limit

\* a synchronous run, two trailing runs, and calls that were coalesced
C1_Witness ==
    /\ Len(execLog) >= 3
    /\ execLog[1].sync /\ ~execLog[2].sync /\ ~execLog[3].sync
    /\ Len(calls) > Len(execLog)

ScenarioDone == script = <<>> /\ timers = {} /\ calls # <<>>

\* C2 as stated: for calls at t = 0, 10, 50, 140 with limit 100, f runs at
\* t = 0, runs again at or after t = 100 with the last attempted arguments,
\* and runs at most twice in all.
C2_AtMostTwo ==
    /\ Len(execLog) <= 2
    /\ ScenarioDone =>
          /\ execLog[1].t = Epoch
          /\ \E j \in 2..Len(execLog) :
                /\ execLog[j].t >= Epoch + ThrottleScenario.limit
                /\ execLog[j].args = LastOf(ThrottleScenario.calls).args

\* C2 amended: f runs at t = 0 with the first call's arguments, its last run
\* is at or after t = 100 and carries the arguments of the call at t = 140,
\* and it runs at most three times in all (three times once every timer has
\* fired: the call at t = 140 falls in the window opened by the run at
\* t = 100 and gets a trailing run of its own).
C2_AtMostThree ==
    /\ Len(execLog) <= 3
    /\ ScenarioDone =>
          /\ Len(execLog) = 3
          /\ execLog[1].t = Epoch /\ execLog[1].args = ThrottleScenario.calls[1].args
          /\ execLog[2].t >= Epoch + ThrottleScenario.limit
          /\ execLog[2].args = ThrottleScenario.calls[3].args
          /\ LastOf(execLog).t >= Epoch + ThrottleScenario.limit
          /\ LastOf(execLog).args = LastOf(ThrottleScenario.calls).args

\* the scenario has run to its end
C2_Witness == ScenarioDone /\ Len(calls) = Len(ThrottleScenario.calls) /\ Len(execLog) = 3

\* C3: the first call runs f synchronously; afterwards at most one trailing
\* run is pending, due at the end of the window (limit after the last run, or
\* at once for a call made after the window), carrying the arguments of the
\* latest call; every trailing run happens when it is due and carries the
\* arguments of the latest call made before it, so the arguments of the
\* earlier calls of the window are never passed to f.
C3_Coalesce ==
    /\ calls # <<>> =>
          /\ execLog # <<>>
          /\ execLog[1] = [t |-> calls[1].t, args |-> calls[1].args, sync |-> TRUE, n |-> 1]
    /\ \A j \in 2..Len(execLog) :
          LET e == execLog[j]
              p == execLog[j - 1]
              c == calls[e.n]
          IN  /\ ~e.sync
              /\ e.n > p.n
              /\ e.args = c.args
              /\ e.t = Max(p.t + limit, c.t)
    /\ Cardinality(timers) <= 1
    /\ \A tm \in timers :
          /\ Len(calls) > LastOf(execLog).n
          /\ tm.args = LastOf(calls).args
          /\ tm.due = Max(lastRan + limit, LastOf(calls).t)
    /\ (timers = {} /\ calls # <<>>) => LastOf(execLog).n = Len(calls)

\* a trailing run that coalesced two calls with different arguments, made
\* inside the window, and ran at the window's end with the later arguments
C3_Witness ==
    /\ Len(execLog) >= 2
    /\ execLog[2].n = 3
    /\ calls[2].args # calls[3].args
    /\ calls[3].t < execLog[1].t + limit
    /\ execLog[2].t = execLog[1].t + limit
    /\ execLog[2].args = calls[3].args

\* C16: every call is followed, no later than `limit` after it, by a run of f
\* that carries the arguments of that call or of a later one (until then a
\* timer due in time is pending with the latest arguments); and a call made
\* inside the window opened by a run gets the next run exactly at the end of
\* that window, so calls spaced less than `limit` apart keep f running once
\* per window.
C16_NoLostUpdate ==
    /\ \A i \in DOMAIN calls :
          \/ \E j \in DOMAIN execLog :
                /\ execLog[j].n >= i
                /\ execLog[j].t >= calls[i].t
                /\ execLog[j].t <= calls[i].t + limit
                /\ execLog[j].args = calls[execLog[j].n].args
          \/ /\ now <= calls[i].t + limit
             /\ \E tm \in timers : /\ tm.due <= calls[i].t + limit
                                   /\ tm.args = LastOf(calls).args
    /\ \A j \in DOMAIN execLog : \A i \in DOMAIN calls :
          (i > execLog[j].n /\ calls[i].t < execLog[j].t + limit) =>
              \/ /\ j < Len(execLog)
                 /\ execLog[j + 1].t = execLog[j].t + limit
              \/ /\ j = Len(execLog)
                 /\ now <= execLog[j].t + limit
                 /\ \E tm \in timers : tm.due = execLog[j].t + limit

\* four calls, each less than `limit` after the previous one, got three runs,
\* the last one with the arguments of the last call
C16_Witness ==
    /\ Len(calls) >= 4
    /\ \A i \in 2..4 : calls[i].t > calls[i - 1].t /\ calls[i].t < calls[i - 1].t + limit
    /\ Len(execLog) >= 3
    /\ execLog[3].n >= 4
    /\ execLog[3].t = execLog[1].t + 2 * limit

----------------------------------------------------------------------------
(* utils.debounce(func, wait, immediate) *)

\* mutant: callNow ignores the pending timer
DebounceCallNowAlways(to, imm) == imm

\* line 23: callNow = immediate && !timeout
DebounceCallNow(to, imm) == imm /\ Falsy(to)

\* the `later` callback, lines 19-22
DebounceLater(imm) == [timeout |-> Null, ran |-> ~imm]

\* mutant: the timer is set for one millisecond less than `wait`
DebounceDelayShort(w) == w - 1

\* delay handed to setTimeout at line 25
DebounceDelay(w) == w

\* executedFunction, lines 18-27, called with args
DebouncedCall(args) ==
    LET callNow == DebounceCallNow(timeout, immediate) IN
    /\ calls' = Append(calls, [t |-> now, args |-> args])
    /\ timers' = ClearTimeout(timers, timeout) \cup
                    {NewTimer(nextId, now, DebounceDelay(wait), args)}
    /\ timeout' = nextId
    /\ nextId' = nextId + 1
    /\ execLog' = IF callNow
                     THEN Append(execLog, [t |-> now, args |-> args,
                                           sync |-> TRUE, n |-> Len(calls) + 1])
                     ELSE execLog
    /\ UNCHANGED <<now, horizon, wait, immediate, throttleVars, pageVars>>

\* a call at any time, with any arguments
DebounceCall ==
    /\ script = <<>>
    /\ Len(calls) < MaxCalls
    /\ \E a \in Args : DebouncedCall(a)
    /\ UNCHANGED script

\* a due timer of the debounce runs `later`
DebounceTimer ==
    \E tm \in DueTimers :
        LET r == DebounceLater(immediate) IN
        /\ timers' = timers \ {tm}
        /\ timeout' = r.timeout
        /\ execLog' = IF r.ran THEN Append(execLog, Ran(tm.args, FALSE)) ELSE execLog
        /\ UNCHANGED <<now, nextId, calls, script, horizon, wait, immediate, throttleVars, pageVars>>

NoThrottle == limit = 0 /\ lastFunc = Undefined /\ lastRan = Undefined

DebounceInit ==
    /\ now = Epoch
    /\ timers = {}
    /\ nextId = 1
    /\ calls = <<>>
    /\ execLog = <<>>
    /\ script = <<>>
    /\ horizon = MaxTime
    /\ wait \in 2..MaxParam
    /\ immediate \in BOOLEAN
    /\ timeout = Undefined
    /\ NoThrottle
    /\ NoPage

DebounceNext == Tick \/ DebounceCall \/ DebounceTimer

SpecDebounce == DebounceInit /\ [][DebounceNext]_vars

----------------------------------------------------------------------------
(* Claims about utils.debounce *)

\* call i ends a burst that is over: the next call, or the clock when there
\* is no next call, is more than `wait` after it
BurstClosed(i) ==
    IF i < Len(calls) THEN calls[i + 1].t > calls[i].t + wait
                      ELSE now > calls[i].t + wait

RunsOfCall(i) == {j \in DOMAIN execLog : execLog[j].n = i}

\* C4: without `immediate`, f is only run by the timer, never sooner than
\* `wait` after the most recent call and with that call's arguments; a burst
\* of calls each less than `wait` after the previous one, followed by more
\* than `wait` without a call, gets exactly one run of f, `wait` after its
\* last call and with its last call's arguments, and no call that is followed
\* by another in less than `wait` gets a run.
C4_DebounceTrailing ==
    ~immediate =>
        /\ \A j \in DOMAIN execLog :
              LET e == execLog[j]
                  c == calls[e.n]
              IN  /\ ~e.sync
                  /\ e.args = c.args
                  /\ e.t >= c.t + wait
                  /\ e.n < Len(calls) => calls[e.n + 1].t >= c.t + wait
        /\ \A j, k \in DOMAIN execLog : j < k => execLog[j].n < execLog[k].n
        /\ \A i \in DOMAIN calls :
              BurstClosed(i) =>
                  /\ Cardinality(RunsOfCall(i)) = 1
                  /\ \A j \in RunsOfCall(i) : execLog[j].t = calls[i].t + wait

\* a burst of three calls, the last with other arguments than the second,
\* has had its single run
C4_Witness ==
    /\ ~immediate
    /\ Len(calls) = 3
    /\ calls[2].t > calls[1].t /\ calls[2].t < calls[1].t + wait
    /\ calls[3].t > calls[2].t /\ calls[3].t < calls[2].t + wait
    /\ calls[3].args # calls[2].args
    /\ Len(execLog) = 1
    /\ execLog[1].n = 3 /\ execLog[1].t = calls[3].t + wait

\* C5: with `immediate`, f is only run synchronously by a call, with that
\* call's arguments, never by the timer; the first call runs f, and so does
\* every call that arrives more than `wait` after the previous call; a call
\* that runs f (other than the first) arrives at least `wait` after the
\* previous call, so two runs of f are at least `wait` apart.
C5_DebounceImmediate ==
    immediate =>
        /\ \A j \in DOMAIN execLog :
              LET e == execLog[j]
                  c == calls[e.n]
              IN  /\ e.sync
                  /\ e.t = c.t /\ e.args = c.args
                  /\ e.n > 1 => c.t >= calls[e.n - 1].t + wait
        /\ \A j, k \in DOMAIN execLog :
              j < k => /\ execLog[j].n < execLog[k].n
                       /\ execLog[k].t >= execLog[j].t + wait
        /\ \A i \in DOMAIN calls :
              (i = 1 \/ calls[i].t > calls[i - 1].t + wait) => RunsOfCall(i) # {}

\* two bursts: the first call of each ran f, the other calls of the first
\* burst did not
C5_Witness ==
    /\ immediate
    /\ Len(calls) = 4
    /\ calls[2].t < calls[1].t + wait
    /\ calls[3].t < calls[2].t + wait
    /\ Len(execLog) = 2
    /\ execLog[1].n = 1 /\ execLog[2].n = 4

----------------------------------------------------------------------------
(* The markup the widgets run against *)

\* the .tab-button elements in document order, and their data-tab attributes:
\* the three known keys, an unknown key, an empty attribute, and two keys that
\* name properties every JavaScript object inherits from Object.prototype
TabOrder == <<"b1", "b2", "b3", "b4", "b5", "b6", "b7">>
TabButtons == {TabOrder[i] : i \in DOMAIN TabOrder}
DataTab == [b1 |-> "scooters", b2 |-> "bikes", b3 |-> "mopeds", b4 |-> "cars",
            b5 |-> "", b6 |-> "constructor", b7 |-> "__proto__"]

\* a card left in .models-grid by the markup
StaleCard == [title |-> "placeholder", price |-> "0 BYN", image |-> "",
              features |-> <<>>, badge |-> FALSE]

----------------------------------------------------------------------------
(* ProductTabs *)

\* the productData literal of lines 330-346 (feature texts transliterated)
productData ==
    [scooters |-> <<
        [name |-> "Kugoo C1", price |-> "450 BYN", image |-> "kugoo-c1.jpg",
         features |-> <<"25 km/h", "25 km", "7.5 Ah">>],
        [name |-> "Kugoo M2", price |-> "650 BYN", image |-> "kugoo-m2.jpg",
         features |-> <<"35 km/h", "35 km", "10.4 Ah">>],
        [name |-> "Kugoo M4 Pro", price |-> "850 BYN", image |-> "kugoo-m4-pro.jpg",
         features |-> <<"45 km/h", "50 km", "18 Ah">>] >>,
     bikes |-> <<
        [name |-> "GT V6", price |-> "1200 BYN", image |-> "gt-v6.jpg",
         features |-> <<"25 km/h", "60 km", "13 Ah">>],
        [name |-> "CAMRY 3.5", price |-> "1500 BYN", image |-> "camry-35.jpg",
         features |-> <<"25 km/h", "70 km", "16 Ah">>],
        [name |-> "Kugoo Kirin C2", price |-> "1800 BYN", image |-> "kugoo-kirin-c2.jpg",
         features |-> <<"25 km/h", "80 km", "20 Ah">>] >>,
     mopeds |-> <<
        [name |-> "CityCoco GT X-11", price |-> "2500 BYN", image |-> "citycoco-gt-x11.jpg",
         features |-> <<"45 km/h", "60 km", "20 Ah">>],
        [name |-> "GT EV3", price |-> "3200 BYN", image |-> "gt-ev3.jpg",
         features |-> <<"60 km/h", "80 km", "32 Ah">>],
        [name |-> "IKINGI X7 PRO", price |-> "4500 BYN", image |-> "ikingi-x7-pro.jpg",
         features |-> <<"80 km/h", "120 km", "60 Ah">>] >>]

\* property names an object literal inherits from Object.prototype: reading
\* one of them from productData yields a function or an object, never a list
ObjectPrototypeKeys ==
    {"constructor", "__proto__", "toString", "toLocaleString", "valueOf",
     "hasOwnProperty", "isPrototypeOf", "propertyIsEnumerable"}

\* getProductData(type), line 348: productData[type] || productData.scooters.
\* isArray tells whether the value has a forEach method.
getProductData(type) ==
    IF type \in DOMAIN productData
       THEN [isArray |-> TRUE, items |-> productData[type]]
       ELSE IF type \in ObjectPrototypeKeys
               THEN [isArray |-> FALSE, items |-> <<>>]
               ELSE [isArray |-> TRUE, items |-> productData.scooters]

\* createProductCard(product), lines 351-374
createProductCard(product) ==
    [title |-> product.name, price |-> product.price, image |-> product.image,
     features |-> product.features, badge |-> TRUE]

\* products.forEach(product => modelsGrid.appendChild(createProductCard(product)))
RECURSIVE AppendCards(_, _)
AppendCards(children, products) ==
    IF products = <<>> THEN children
    ELSE AppendCards(Append(children, createProductCard(Head(products))), Tail(products))

\* mutant: the region is not cleared before the cards are appended
LoadTabContentAppend(children, present, tabType) ==
    IF ~present THEN [grid |-> children, threw |-> FALSE]
    ELSE LET products == getProductData(tabType) IN
         IF ~products.isArray THEN [grid |-> children, threw |-> TRUE]
         ELSE [grid |-> AppendCards(children, products.items), threw |-> FALSE]

\* loadTabContent(tabType), lines 314-327: the new children of .models-grid,
\* and whether the call ended in a TypeError (products.forEach is not a
\* function, raised after the region was cleared)
LoadTabContent(children, present, tabType) ==
    IF ~present THEN [grid |-> children, threw |-> FALSE]
    ELSE LET products == getProductData(tabType) IN
         IF ~products.isArray THEN [grid |-> <<>>, threw |-> TRUE]
         ELSE [grid |-> AppendCards(<<>>, products.items), threw |-> FALSE]

\* mutant: the other controls keep their marking
SwitchActiveKeep(active, button) == active \cup {button}

\* lines 305-308 of switchTab: the marking after activating `button`
SwitchActive(active, button) == (active \ TabButtons) \cup {button}

\* ProductTabs.switchTab(activeButton), lines 301-312
SwitchTab(button) ==
    LET r == LoadTabContent(grid, gridPresent, DataTab[button]) IN
    /\ tabActive' = SwitchActive(tabActive, button)
    /\ grid' = r.grid
    /\ threw' = r.threw
    /\ opThrew' = r.threw
    /\ nullDeref' = FALSE
    /\ prevGrid' = grid
    /\ selected' = TRUE
    /\ lastKey' = DataTab[button]

\* a click on a tab control: the listener of line 297
ClickTab(button) ==
    /\ tabsBound /\ tabsPresent
    /\ SwitchTab(button)
    /\ lastClicked' = button
    /\ selectedBy' = "click"
    /\ lastOp' = "click"
    /\ UNCHANGED <<gridPresent, tabsPresent, appVars, initialActive>>
    /\ UNCHANGED <<formVars, noteVars, menuVars, scrollVars>>
    /\ UNCHANGED <<timeVars, throttleVars, debounceVars>>

\* document.querySelector('.tab-button.active'): the first match in document
\* order, 0 when there is none
DefaultButtonIndex ==
    LET m == {i \in DOMAIN TabOrder : TabOrder[i] \in tabActive} IN
    IF m = {} THEN 0 ELSE CHOOSE i \in m : \A k \in m : i <= k

----------------------------------------------------------------------------
(* ElectroPowerApp *)

\* the constructors called by initializeComponents, in order (lines 636-641)
Widgets == <<"autoScroll", "mobileNav", "productTabs", "formHandler",
             "performanceOptimizer", "analytics">>

\* loadDefaultTab, lines 376-381, run by the ProductTabs constructor
LoadDefaultTab ==
    IF DefaultButtonIndex = 0 THEN [grid |-> grid, threw |-> FALSE, called |-> FALSE, key |-> ""]
    ELSE LET key == DataTab[TabOrder[DefaultButtonIndex]]
             r   == LoadTabContent(grid, gridPresent, key)
         IN  [grid |-> r.grid, threw |-> r.threw, called |-> TRUE, key |-> key]

\* whether the constructor of widget w throws against this markup
ConstructorThrows(w) == w = "productTabs" /\ LoadDefaultTab.threw

\* index of the first constructor that throws, 0 when none does
FirstThrow ==
    LET m == {i \in DOMAIN Widgets : ConstructorThrows(Widgets[i])} IN
    IF m = {} THEN 0 ELSE CHOOSE i \in m : \A k \in m : i <= k

\* the constructors initializeComponents gets to call
Entered == IF FirstThrow = 0 THEN DOMAIN Widgets ELSE 1..FirstThrow

\* initializeComponents, lines 633-651
InitializeComponents ==
    /\ ~started
    /\ started' = TRUE
    /\ components' = {Widgets[i] : i \in Entered \ {FirstThrow}}
    /\ failed' = IF FirstThrow = 0 THEN "none" ELSE Widgets[FirstThrow]
    /\ errorLogged' = (FirstThrow # 0)
    /\ loaded' = (FirstThrow = 0)
    /\ threw' = FALSE
    /\ opThrew' = FALSE
    /\ nullDeref' = FALSE
    /\ lastOp' = "init"
    /\ selectedBy' = IF "productTabs" \in {Widgets[i] : i \in Entered} /\ LoadDefaultTab.called
                        THEN "default" ELSE selectedBy
    /\ formBound' = (formPresent /\ "formHandler" \in {Widgets[i] : i \in Entered})
    /\ IF "productTabs" \in {Widgets[i] : i \in Entered}
          THEN /\ tabsBound' = TRUE
               /\ grid' = LoadDefaultTab.grid
               /\ selected' = LoadDefaultTab.called
               /\ lastKey' = LoadDefaultTab.key
               /\ prevGrid' = IF LoadDefaultTab.called THEN grid ELSE prevGrid
          ELSE UNCHANGED <<tabsBound, grid, selected, lastKey, prevGrid>>
    /\ UNCHANGED <<tabActive, gridPresent, tabsPresent, lastClicked, initialActive>>
    /\ UNCHANGED <<markupVars, nameField, phoneField, btnText, btnDisabled, submits>>
    /\ UNCHANGED <<noteVars, menuVars, siteVars>>
    /\ UNCHANGED <<timeVars, throttleVars, debounceVars>>

----------------------------------------------------------------------------
(* MobileNav.toggleMenu and the public API of ElectroPowerApp *)

\* toggleMenu, lines 252-258: this.navList and this.menuToggle are null when
\* the markup lacks them, and reading classList of null raises a TypeError
ToggleMenu(navPresent, togglePresent, navActive, toggleActive) ==
    IF ~navPresent
       THEN [nav |-> navActive, toggle |-> toggleActive, threw |-> TRUE]
       ELSE IF ~togglePresent
               THEN [nav |-> ~navActive, toggle |-> toggleActive, threw |-> TRUE]
               ELSE [nav |-> ~navActive, toggle |-> ~toggleActive, threw |-> FALSE]

\* openMobileMenu(), lines 658-660
ApiOpenMobileMenu ==
    LET r == ToggleMenu(navListPresent, menuTogglePresent, navListActive, menuToggleActive) IN
    /\ IF "mobileNav" \in components
          THEN /\ navListActive' = r.nav
               /\ menuToggleActive' = r.toggle
               /\ opThrew' = r.threw
               /\ nullDeref' = r.threw
          ELSE /\ UNCHANGED <<navListActive, menuToggleActive>>
               /\ opThrew' = FALSE
               /\ nullDeref' = FALSE
    /\ lastOp' = "openMobileMenu"
    /\ UNCHANGED <<navListPresent, menuTogglePresent>>
    /\ UNCHANGED <<domVars, appVars, formVars, noteVars, scrollVars>>
    /\ UNCHANGED <<selected, lastKey, lastClicked, threw, prevGrid, initialActive, selectedBy>>
    /\ UNCHANGED <<timeVars, throttleVars, debounceVars>>

\* scrollToTop(), lines 654-656: every step of the chain is optional
ApiScrollToTop ==
    /\ lastOp' = "scrollToTop"
    /\ opThrew' = FALSE
    /\ nullDeref' = FALSE
    /\ UNCHANGED <<domVars, appVars, formVars, noteVars, menuVars, scrollVars>>
    /\ UNCHANGED <<selected, lastKey, lastClicked, threw, prevGrid, initialActive, selectedBy>>
    /\ UNCHANGED <<timeVars, throttleVars, debounceVars>>

\* names for which `[data-tab="${tabName}"]` is not a valid selector
BadSelectorNames == {"a\"b"}

\* the names the API is called with: the data-tab values of the markup, a
\* name no element carries and a name holding a double quote
ApiNames == {DataTab[b] : b \in TabButtons} \cup {"nosuch"} \cup BadSelectorNames

\* document.querySelector(`[data-tab="${tabName}"]`), line 663: index of the
\* first element carrying that data-tab value, 0 when there is none
QueryDataTab(name) ==
    LET m == {i \in DOMAIN TabOrder : tabsPresent /\ DataTab[TabOrder[i]] = name} IN
    IF m = {} THEN 0 ELSE CHOOSE i \in m : \A k \in m : i <= k

\* switchTab(tabName), lines 662-667
ApiSwitchTab(name) ==
    /\ lastOp' = "switchTab"
    /\ IF name \in BadSelectorNames
          THEN /\ opThrew' = TRUE
               /\ nullDeref' = FALSE
               /\ UNCHANGED <<tabActive, grid, prevGrid, selected, lastKey, threw, selectedBy>>
          ELSE IF QueryDataTab(name) # 0 /\ "productTabs" \in components
                  THEN SwitchTab(TabOrder[QueryDataTab(name)]) /\ selectedBy' = "api"
                  ELSE /\ opThrew' = FALSE
                       /\ nullDeref' = FALSE
                       /\ UNCHANGED <<tabActive, grid, prevGrid, selected, lastKey, threw, selectedBy>>
    /\ UNCHANGED <<gridPresent, tabsPresent, appVars, lastClicked, initialActive>>
    /\ UNCHANGED <<formVars, noteVars, menuVars, scrollVars>>
    /\ UNCHANGED <<timeVars, throttleVars, debounceVars>>

NoTime ==
    /\ now = Epoch /\ timers = {} /\ nextId = 1 /\ calls = <<>>
    /\ execLog = <<>> /\ script = <<>> /\ horizon = 0

\* what the markup may hold in .models-grid before the script runs
InitialGrids == {<<>>, <<StaleCard>>, AppendCards(<<StaleCard>>, productData.bikes)}

\* the label of the submit button in the markup, and the one set at line 432
OriginalLabel == "Otpravit"
LoadingLabel  == "Otpravlyaem..."

\* markup that has the consultation form, its inputs and its submit button
FullForm ==
    /\ formPresent = TRUE /\ inputsPresent = TRUE /\ submitBtnPresent = TRUE
    /\ resetClobbered = FALSE
    /\ nameField = "" /\ phoneField = ""
    /\ btnText = OriginalLabel /\ btnDisabled = FALSE

\* markup that has the menu toggle and the nav list, menu closed
FullMenu ==
    /\ navListPresent = TRUE /\ menuTogglePresent = TRUE
    /\ navListActive = FALSE /\ menuToggleActive = FALSE

\* nothing has run yet
NothingRan ==
    /\ started = FALSE /\ components = {} /\ tabsBound = FALSE /\ formBound = FALSE
    /\ errorLogged = FALSE /\ loaded = FALSE /\ failed = "none"
    /\ selected = FALSE /\ lastKey = "" /\ lastClicked = "none" /\ threw = FALSE
    /\ prevGrid = <<>>
    /\ notes = <<>> /\ submits = <<>> /\ closes = 0
    /\ nullDeref = FALSE /\ lastOp = "none" /\ opThrew = FALSE /\ selectedBy = "none"
    /\ NoSiteEvent

PageInit ==
    /\ NoTime /\ NoThrottle /\ NoDebounce
    /\ tabsPresent = TRUE
    /\ FullMenu /\ FullForm /\ NothingRan
    /\ tabActive \in SUBSET TabButtons
    /\ initialActive = tabActive
    /\ gridPresent \in BOOLEAN
    /\ grid \in IF gridPresent THEN InitialGrids ELSE {<<>>}

PageNext ==
    \/ InitializeComponents
    \/ \E b \in TabButtons : ClickTab(b) /\ UNCHANGED events

SpecPage == PageInit /\ [][PageNext]_vars

\* the page with any of the tab controls, the render target, the menu toggle
\* and the nav list missing, driven by clicks and by the public API
ApiInit ==
    /\ NoTime /\ NoThrottle /\ NoDebounce
    /\ FullForm /\ NothingRan
    /\ tabsPresent \in BOOLEAN
    /\ tabActive \in {a \in SUBSET (IF tabsPresent THEN TabButtons ELSE {}) : Cardinality(a) <= 2}
    /\ initialActive = tabActive
    /\ gridPresent \in BOOLEAN
    /\ grid \in IF gridPresent THEN {<<StaleCard>>} ELSE {<<>>}
    /\ navListPresent \in BOOLEAN /\ menuTogglePresent \in BOOLEAN
    /\ navListActive = FALSE /\ menuToggleActive = FALSE

ApiNext ==
    \/ InitializeComponents
    \/ \E b \in TabButtons : ClickTab(b) /\ UNCHANGED events
    \/ \E name \in ApiNames : ApiSwitchTab(name) /\ UNCHANGED events
    \/ ApiOpenMobileMenu /\ UNCHANGED events
    \/ ApiScrollToTop /\ UNCHANGED events

SpecApi == ApiInit /\ [][ApiNext]_vars

----------------------------------------------------------------------------
(* FormHandler: the consultation form and the notifications *)

\* delays of the setTimeout calls at lines 436, 507, 512 and 525
SubmitLatency   == 1000
AnimateInDelay  == 100
AutoRemoveDelay == 5000
ExitDelay       == 300

\* values the user may type into the two inputs
Names  == {"", "A"}
Phones == {"", "123"}

\* mutant: only the name is validated
ValidateNameOnly(name, phone) == name # ""

\* the validation of line 418: both values are truthy
Validate(name, phone) == name # "" /\ phone # ""

\* mutant: a new notification replaces the ones on screen
ShowNotificationCollapse(ns, type, by, t) ==
    Append([j \in DOMAIN ns |->
               [ns[j] EXCEPT !.inDom = FALSE,
                             !.removedAt = IF ns[j].inDom THEN t ELSE @]],
           [type |-> type, by |-> by, created |-> t, inDom |-> TRUE,
            shown |-> FALSE, closedAt |-> Null, removedAt |-> Null,
            removals |-> 0, attempts |-> 0])

\* showNotification, lines 467-502: a new element appended to document.body,
\* off screen; `by` is the submit event that caused the call
ShowNotification(ns, type, by, t) ==
    Append(ns, [type |-> type, by |-> by, created |-> t, inDom |-> TRUE,
                shown |-> FALSE, closedAt |-> Null, removedAt |-> Null,
                removals |-> 0, attempts |-> 0])

\* showNotification, lines 505-512: the two timers of notification `ref`
NotificationTimers(ts, id, ref, t) ==
    ts \cup {NewTimer(id, t, AnimateInDelay, [kind |-> "animateIn", ref |-> ref]),
             NewTimer(id + 1, t, AutoRemoveDelay, [kind |-> "autoRemove", ref |-> ref])}

\* removeNotification, lines 520-525: slide out and set the removal timer
RemoveNotification(ts, id, ref, t) ==
    ts \cup {NewTimer(id, t, ExitDelay, [kind |-> "detach", ref |-> ref])}

\* mutant: the removal timer removes the element without looking at parentNode
DetachUnguarded(n, t) ==
    [n EXCEPT !.inDom = FALSE, !.removedAt = t, !.removals = @ + 1,
              !.attempts = @ + 1]

\* the callback of the removal timer, lines 522-524
Detach(n, t) ==
    IF n.inDom
       THEN [n EXCEPT !.inDom = FALSE, !.removedAt = t, !.removals = @ + 1,
                      !.attempts = @ + 1]
       ELSE [n EXCEPT !.attempts = @ + 1]

\* the record kept of a submit event
SubmitRecord(outcome, original, doneAt) ==
    [t |-> now, outcome |-> outcome, originalText |-> original, doneAt |-> doneAt]

\* history variables of the tab widgets, untouched by the form
tabHist == <<selected, lastKey, lastClicked, threw, prevGrid, initialActive, selectedBy>>

\* everything the form handlers leave alone
FormFrame ==
    /\ UNCHANGED <<now, calls, execLog, script, horizon>>
    /\ UNCHANGED <<throttleVars, debounceVars, domVars, appVars, menuVars, siteVars>>
    /\ UNCHANGED <<markupVars, formBound, tabHist>>

\* submitConsultationRequest up to the await, lines 428-436, for submit event i
SubmitConsultationRequest(i) ==
    IF ~submitBtnPresent
       THEN \* line 431 reads textContent of null; caught at line 446
            /\ notes' = ShowNotification(notes, "error", i, now)
            /\ timers' = NotificationTimers(timers, nextId, Len(notes) + 1, now)
            /\ nextId' = nextId + 2
            /\ submits' = Append(submits, SubmitRecord("error", "", now))
            /\ UNCHANGED <<btnText, btnDisabled>>
       ELSE /\ btnText' = LoadingLabel
            /\ btnDisabled' = TRUE
            /\ timers' = timers \cup
                  {NewTimer(nextId, now, SubmitLatency, [kind |-> "submitDone", ref |-> i])}
            /\ nextId' = nextId + 1
            /\ submits' = Append(submits, SubmitRecord("pending", btnText, Null))
            /\ UNCHANGED notes

\* handleConsultationSubmit, lines 410-425: the listener of the submit event,
\* fired with `name` and `phone` typed into the inputs (when the form has them)
HandleConsultationSubmit(name, phone) ==
    /\ formBound
    /\ Len(submits) + closes < MaxEvents
    /\ lastOp' = "form"
    /\ IF ~inputsPresent
          THEN \* lines 414-415 read .value of null: an uncaught TypeError
               /\ submits' = Append(submits, SubmitRecord("threw", "", now))
               /\ opThrew' = TRUE /\ nullDeref' = TRUE
               /\ UNCHANGED <<nameField, phoneField>>
               /\ UNCHANGED <<btnText, btnDisabled, notes, timers, nextId>>
          ELSE /\ opThrew' = FALSE /\ nullDeref' = FALSE
               /\ nameField' = name /\ phoneField' = phone
               /\ IF ~Validate(name, phone)
                     THEN /\ notes' = ShowNotification(notes, "error", Len(submits) + 1, now)
                          /\ timers' = NotificationTimers(timers, nextId, Len(notes) + 1, now)
                          /\ nextId' = nextId + 2
                          /\ submits' = Append(submits, SubmitRecord("rejected", "", now))
                          /\ UNCHANGED <<btnText, btnDisabled>>
                     ELSE SubmitConsultationRequest(Len(submits) + 1)
    /\ UNCHANGED closes
    /\ FormFrame

\* submitConsultationRequest after the await, lines 439-448
SubmitResume ==
    \E tm \in DueTimers :
       /\ tm.args.kind = "submitDone"
       /\ LET i  == tm.args.ref
              n1 == ShowNotification(notes, "success", i, now)
              t1 == NotificationTimers(timers \ {tm}, nextId, Len(notes) + 1, now)
          IN  IF resetClobbered
                 THEN \* line 440: form.reset is not a function; caught at line 446
                      /\ notes' = ShowNotification(n1, "error", i, now)
                      /\ timers' = NotificationTimers(t1, nextId + 2, Len(notes) + 2, now)
                      /\ nextId' = nextId + 4
                      /\ submits' = [submits EXCEPT ![i].outcome = "error", ![i].doneAt = now]
                      /\ UNCHANGED <<nameField, phoneField, btnText, btnDisabled>>
                 ELSE /\ notes' = n1
                      /\ timers' = t1
                      /\ nextId' = nextId + 2
                      /\ submits' = [submits EXCEPT ![i].outcome = "done", ![i].doneAt = now]
                      /\ nameField' = "" /\ phoneField' = ""
                      /\ btnText' = submits[i].originalText
                      /\ btnDisabled' = FALSE
       /\ lastOp' = "form" /\ opThrew' = FALSE /\ nullDeref' = FALSE
       /\ UNCHANGED closes
       /\ FormFrame

\* the animate-in timer of a notification, lines 505-507
AnimateIn ==
    \E tm \in DueTimers :
       /\ tm.args.kind = "animateIn"
       /\ notes' = [notes EXCEPT ![tm.args.ref].shown = TRUE]
       /\ timers' = timers \ {tm}
       /\ lastOp' = "form" /\ opThrew' = FALSE /\ nullDeref' = FALSE
       /\ UNCHANGED <<nameField, phoneField, btnText, btnDisabled, submits, closes, nextId>>
       /\ FormFrame

\* the auto-remove timer of a notification, lines 510-512
AutoRemove ==
    \E tm \in DueTimers :
       /\ tm.args.kind = "autoRemove"
       /\ notes' = [notes EXCEPT ![tm.args.ref].shown = FALSE]
       /\ timers' = RemoveNotification(timers \ {tm}, nextId, tm.args.ref, now)
       /\ nextId' = nextId + 1
       /\ lastOp' = "form" /\ opThrew' = FALSE /\ nullDeref' = FALSE
       /\ UNCHANGED <<nameField, phoneField, btnText, btnDisabled, submits, closes>>
       /\ FormFrame

\* a click on the close button of notification i, line 516
CloseNotification(i) ==
    /\ notes[i].inDom
    /\ Len(submits) + closes < MaxEvents
    /\ closes' = closes + 1
    /\ notes' = [notes EXCEPT ![i].shown = FALSE,
                              ![i].closedAt = IF @ = Null THEN now ELSE @]
    /\ timers' = RemoveNotification(timers, nextId, i, now)
    /\ nextId' = nextId + 1
    /\ lastOp' = "form" /\ opThrew' = FALSE /\ nullDeref' = FALSE
    /\ UNCHANGED <<nameField, phoneField, btnText, btnDisabled, submits>>
    /\ FormFrame

\* the removal timer set by removeNotification, lines 521-525
DetachTimer ==
    \E tm \in DueTimers :
       /\ tm.args.kind = "detach"
       /\ notes' = [notes EXCEPT ![tm.args.ref] = Detach(@, now)]
       /\ timers' = timers \ {tm}
       /\ lastOp' = "form" /\ opThrew' = FALSE /\ nullDeref' = FALSE
       /\ UNCHANGED <<nameField, phoneField, btnText, btnDisabled, submits, closes, nextId>>
       /\ FormFrame

\* the clock moves to the next timer, or by at most Step when none is that near
Advance ==
    /\ DueTimers = {}
    /\ \E t \in {now + Step} \cup {tm.due : tm \in timers} :
          /\ t > now
          /\ t <= Epoch + horizon
          /\ \A tm \in timers : t <= tm.due
          /\ now' = t
    /\ UNCHANGED <<timers, nextId, calls, execLog, script, horizon>>
    /\ UNCHANGED <<throttleVars, debounceVars, pageVars>>

\* the page with the consultation form, with at most one thing wrong in its
\* markup; the tab controls and the render target play no part
FormInit ==
    /\ now = Epoch /\ timers = {} /\ nextId = 1 /\ calls = <<>>
    /\ execLog = <<>> /\ script = <<>> /\ horizon = FormHorizon
    /\ NoThrottle /\ NoDebounce
    /\ FullMenu /\ NothingRan
    /\ tabsPresent = FALSE /\ tabActive = {} /\ initialActive = {}
    /\ gridPresent = FALSE /\ grid = <<>>
    /\ formPresent = TRUE
    /\ \E m \in {<<TRUE, TRUE, FALSE>>, <<FALSE, TRUE, FALSE>>,
                  <<TRUE, FALSE, FALSE>>, <<TRUE, TRUE, TRUE>>} :
          /\ inputsPresent = m[1] /\ submitBtnPresent = m[2]
          /\ resetClobbered = m[3]
    /\ nameField = "" /\ phoneField = ""
    /\ btnText = OriginalLabel /\ btnDisabled = FALSE

FormNext ==
    \/ InitializeComponents
    \/ \E name \in Names, phone \in Phones : HandleConsultationSubmit(name, phone)
    \/ SubmitResume
    \/ AnimateIn
    \/ AutoRemove
    \/ \E i \in DOMAIN notes : CloseNotification(i)
    \/ DetachTimer
    \/ Advance

SpecForm == FormInit /\ [][FormNext]_vars

----------------------------------------------------------------------------
(* MobileNav and AutoScroll: clicks on the menu toggle, on nav links and
   outside the navigation *)

\* the .nav-link elements of the markup; Anchors are those whose href starts
\* with '#' (line 181)
NavLinks == {"l1", "l2", "l3"}
Anchors  == {"l1", "l2"}

\* MobileNav.bindEvents attached its listeners: line 235 asks for both elements
MenuBound == "mobileNav" \in components /\ menuTogglePresent /\ navListPresent

\* closeMenu, lines 260-264
CloseMenu(navActive, toggleActive) == [nav |-> FALSE, toggle |-> FALSE]

\* mutant: the nav-link listener clears 'active' on every element
DeactivateLinksEverywhere(active) == {}

\* line 190, on the set of elements carrying 'active': navLinks holds the
\* elements matching '.nav-link' (line 174), so only they lose the class
DeactivateLinks(active) == active \ NavLinks

\* a user event is counted (the tab clicks and the API calls are counted by
\* the specification of the whole page only)
CountEvent ==
    /\ events + Len(submits) + closes < MaxEvents
    /\ events' = events + 1

\* what the clicks on the navigation leave alone
MenuFrame ==
    /\ UNCHANGED <<navListPresent, menuTogglePresent>>
    /\ UNCHANGED <<scrollThrottle, resizeThrottle, scrollDom>>
    /\ UNCHANGED <<gridPresent, grid, tabsPresent>>
    /\ UNCHANGED <<appVars, formVars, noteVars, tabHist>>
    /\ UNCHANGED <<timeVars, throttleVars, debounceVars>>

\* a click on .mobile-menu-toggle: the listener of line 236 runs toggleMenu;
\* the document listener of lines 244-248 finds the toggle and does nothing
ToggleClick ==
    LET r == ToggleMenu(navListPresent, menuTogglePresent, navListActive, menuToggleActive) IN
    /\ MenuBound
    /\ CountEvent
    /\ navListActive' = r.nav
    /\ menuToggleActive' = r.toggle
    /\ lastOp' = "toggleClick" /\ opThrew' = r.threw /\ nullDeref' = r.threw
    /\ UNCHANGED <<navLinkActive, tabActive>>
    /\ MenuFrame

\* a click on the .nav-link element l: the listener of lines 177-193 marks an
\* anchor link as the active one, the listener of line 240 closes the menu
NavLinkClick(l) ==
    LET r == CloseMenu(navListActive, menuToggleActive)
        a == IF l \in Anchors
                THEN DeactivateLinks(tabActive \cup navLinkActive) \cup {l}
                ELSE tabActive \cup navLinkActive
    IN
    /\ "autoScroll" \in components
    /\ CountEvent
    /\ navLinkActive' = a \cap NavLinks
    /\ tabActive' = a \cap TabButtons
    /\ IF MenuBound
          THEN navListActive' = r.nav /\ menuToggleActive' = r.toggle
          ELSE UNCHANGED <<navListActive, menuToggleActive>>
    /\ lastOp' = "navLinkClick" /\ opThrew' = FALSE /\ nullDeref' = FALSE
    /\ MenuFrame

\* a click outside .main-nav and outside the toggle: the document listener of
\* lines 244-248 closes the menu
OutsideClick ==
    LET r == CloseMenu(navListActive, menuToggleActive) IN
    /\ started
    /\ CountEvent
    /\ IF MenuBound
          THEN navListActive' = r.nav /\ menuToggleActive' = r.toggle
          ELSE UNCHANGED <<navListActive, menuToggleActive>>
    /\ lastOp' = "outsideClick" /\ opThrew' = FALSE /\ nullDeref' = FALSE
    /\ UNCHANGED <<navLinkActive, tabActive>>
    /\ MenuFrame

\* limits of the two throttles of AutoScroll.bindEvents, lines 201 and 205
ScrollLimit == 16
ResizeLimit == 250

\* scroll positions: at the top, scrolled by at most 300 px, scrolled further
Positions == {"top", "near", "far"}

\* handleScroll, lines 135-154: indicator width, back-to-top button, and
\* animateOnScroll for the sections in view
HandleScroll(d) ==
    [d EXCEPT !.width = d.pos, !.show = (d.pos = "far"), !.animated = @ \cup {d.pos}]

\* handleResize, lines 212-214
HandleResize(d) == [d EXCEPT !.animated = @ \cup {d.pos}]

\* what the scroll and resize handlers leave alone
ScrollFrame ==
    /\ UNCHANGED <<now, calls, execLog, script, horizon>>
    /\ UNCHANGED <<throttleVars, debounceVars>>
    /\ UNCHANGED <<domVars, appVars, formVars, noteVars, menuVars, tabHist>>
    /\ UNCHANGED navLinkActive
    /\ opThrew' = FALSE /\ nullDeref' = FALSE

\* a scroll event after the window scrolled to pos: throttledScroll, line 202
ScrollEvent(pos) ==
    LET r == ThrottleInvoke(scrollThrottle.lastRan, now, ScrollLimit)
        d == [scrollDom EXCEPT !.pos = pos]
    IN
    /\ "autoScroll" \in components
    /\ pos # scrollDom.pos
    /\ CountEvent
    /\ IF r.ran
          THEN /\ scrollDom' = HandleScroll(d)
               /\ scrollThrottle' = [scrollThrottle EXCEPT !.lastRan = r.lastRan]
               /\ UNCHANGED <<timers, nextId>>
          ELSE /\ scrollDom' = d
               /\ timers' = ClearTimeout(timers, scrollThrottle.lastFunc) \cup
                     {NewTimer(nextId, now, r.delay, [kind |-> "scroll", ref |-> 0])}
               /\ scrollThrottle' = [lastFunc |-> nextId, lastRan |-> r.lastRan]
               /\ nextId' = nextId + 1
    /\ lastOp' = "scroll"
    /\ UNCHANGED resizeThrottle
    /\ ScrollFrame

\* the timer of throttledScroll, lines 42-47
ScrollTimer ==
    \E tm \in DueTimers :
       LET r == ThrottleLater(scrollThrottle.lastRan, now, ScrollLimit) IN
       /\ tm.args.kind = "scroll"
       /\ timers' = timers \ {tm}
       /\ scrollThrottle' = [scrollThrottle EXCEPT !.lastRan = r.lastRan]
       /\ scrollDom' = IF r.ran THEN HandleScroll(scrollDom) ELSE scrollDom
       /\ lastOp' = "scroll"
       /\ UNCHANGED <<nextId, resizeThrottle, events>>
       /\ ScrollFrame

\* a resize event: throttledResize, line 206
ResizeEvent ==
    LET r == ThrottleInvoke(resizeThrottle.lastRan, now, ResizeLimit) IN
    /\ "autoScroll" \in components
    /\ CountEvent
    /\ IF r.ran
          THEN /\ scrollDom' = HandleResize(scrollDom)
               /\ resizeThrottle' = [resizeThrottle EXCEPT !.lastRan = r.lastRan]
               /\ UNCHANGED <<timers, nextId>>
          ELSE /\ timers' = ClearTimeout(timers, resizeThrottle.lastFunc) \cup
                     {NewTimer(nextId, now, r.delay, [kind |-> "resize", ref |-> 0])}
               /\ resizeThrottle' = [lastFunc |-> nextId, lastRan |-> r.lastRan]
               /\ nextId' = nextId + 1
               /\ UNCHANGED scrollDom
    /\ lastOp' = "resize"
    /\ UNCHANGED scrollThrottle
    /\ ScrollFrame

\* the timer of throttledResize, lines 42-47
ResizeTimer ==
    \E tm \in DueTimers :
       LET r == ThrottleLater(resizeThrottle.lastRan, now, ResizeLimit) IN
       /\ tm.args.kind = "resize"
       /\ timers' = timers \ {tm}
       /\ resizeThrottle' = [resizeThrottle EXCEPT !.lastRan = r.lastRan]
       /\ scrollDom' = IF r.ran THEN HandleResize(scrollDom) ELSE scrollDom
       /\ lastOp' = "resize"
       /\ UNCHANGED <<nextId, scrollThrottle, events>>
       /\ ScrollFrame

\* the page with its navigation, with the menu toggle or the nav list possibly
\* missing; the two carry 'active' together or not at all in the markup
MenuInit ==
    /\ NoTime /\ NoThrottle /\ NoDebounce
    /\ FullForm /\ NothingRan
    /\ tabsPresent = FALSE /\ tabActive = {} /\ initialActive = {}
    /\ gridPresent = FALSE /\ grid = <<>>
    /\ navListPresent \in BOOLEAN /\ menuTogglePresent \in BOOLEAN
    /\ navListActive \in {a \in BOOLEAN : a => navListPresent /\ menuTogglePresent}
    /\ menuToggleActive = navListActive

MenuNext ==
    \/ InitializeComponents
    \/ ToggleClick
    \/ \E l \in NavLinks : NavLinkClick(l)
    \/ OutsideClick
    \/ ApiOpenMobileMenu /\ UNCHANGED events

SpecMenu == MenuInit /\ [][MenuNext]_vars

----------------------------------------------------------------------------
(* The whole page: tabs, navigation, scrolling, the form and its notifications *)

\* the tab control clicked, the name passed to switchTab() and the nav links
\* clicked on the whole page
SiteTabs  == {"b1"}
SiteNames == {"mopeds"}
SiteLinks == {"l1", "l3"}

\* the budget of user events is not used up
Budget == events + Len(submits) + closes < MaxEvents

\* the contract markup, with the bikes tab marked active and a card in the region
SiteInit ==
    /\ now = Epoch /\ timers = {} /\ nextId = 1 /\ calls = <<>>
    /\ execLog = <<>> /\ script = <<>> /\ horizon = FormHorizon
    /\ NoThrottle /\ NoDebounce
    /\ FullMenu /\ FullForm /\ NothingRan
    /\ tabsPresent = TRUE /\ tabActive = {"b2"} /\ initialActive = tabActive
    /\ gridPresent = TRUE /\ grid = <<StaleCard>>

SiteNext ==
    \/ InitializeComponents
    \/ \E b \in SiteTabs : ClickTab(b) /\ CountEvent
    \/ \E name \in SiteNames : ApiSwitchTab(name) /\ CountEvent
    \/ ApiOpenMobileMenu /\ CountEvent
    \/ ApiScrollToTop /\ CountEvent
    \/ ToggleClick
    \/ \E l \in SiteLinks : NavLinkClick(l)
    \/ OutsideClick
    \/ \E pos \in Positions : ScrollEvent(pos)
    \/ ScrollTimer
    \/ ResizeEvent
    \/ ResizeTimer
    \/ \E name \in Names, phone \in Phones : Budget /\ HandleConsultationSubmit(name, phone)
    \/ SubmitResume
    \/ AnimateIn
    \/ AutoRemove
    \/ \E i \in DOMAIN notes : Budget /\ CloseNotification(i)
    \/ DetachTimer
    \/ Advance

SpecSite == SiteInit /\ [][SiteNext]_vars

----------------------------------------------------------------------------
(* Claims about ProductTabs and ElectroPowerApp *)

KnownKeys == {"scooters", "bikes", "mopeds"}

\* one card per product, in the order of the list
CardsOf(products) == [i \in 1..Len(products) |-> createProductCard(products[i])]

\* the list the specification assigns to a key: its own, or the default one
TableOf(key) == IF key \in KnownKeys THEN productData[key] ELSE productData.scooters

\* C6: once a tab control has been clicked, the controls carrying 'active'
\* are exactly the control clicked last, whatever the markup marked active.
C6_SingleActive ==
    lastClicked # "none" =>
        /\ selectedBy = "click" => tabActive = {lastClicked}
        /\ Cardinality(tabActive) <= 1

\* the markup marked two or more controls active and another one was clicked
C6_Witness ==
    /\ Cardinality(initialActive) >= 2
    /\ lastClicked # "none" /\ selectedBy = "click"
    /\ lastClicked \notin initialActive

\* C7: after loadTabContent(k) for a known key k, with the render target
\* present, the region holds exactly one card per product of table[k], in
\* table order, whatever it held before.
C7_KnownKeyRender ==
    (selected /\ gridPresent /\ lastKey \in KnownKeys) =>
        /\ Len(grid) = Len(productData[lastKey])
        /\ \A i \in DOMAIN grid : grid[i] = createProductCard(productData[lastKey][i])
        /\ ~threw

\* the mopeds were selected over a region that held other cards
C7_Witness ==
    /\ selected /\ gridPresent /\ lastKey = "mopeds"
    /\ lastClicked = "b3"
    /\ prevGrid # <<>> /\ prevGrid # grid
    /\ Len(grid) = 3 /\ grid[1].title = "CityCoco GT X-11"

\* C8: after loadTabContent(k') for a key outside the known set, the region
\* holds the cards of the default (scooters) list and no exception was raised.
C8_UnknownKeyFallback ==
    (selected /\ gridPresent /\ lastKey \notin KnownKeys) =>
        /\ grid = CardsOf(productData.scooters)
        /\ ~threw
        /\ failed # "productTabs"

\* C9: after any selection the region holds exactly the cards of the key
\* selected last (never more cards than its list has), and selecting that key
\* once more leaves the region as it is.
C9_IdempotentReplace ==
    (selected /\ gridPresent) =>
        /\ grid = CardsOf(TableOf(lastKey))
        /\ Len(grid) = Len(TableOf(lastKey))
        /\ LoadTabContent(grid, gridPresent, lastKey).grid = grid

\* C10: when a widget constructor throws during initializeComponents the error
\* is logged and every other widget is initialized.
C10_FailureIsolation ==
    started =>
        /\ failed # "none" => errorLogged
        /\ \A i \in DOMAIN Widgets : Widgets[i] # failed => Widgets[i] \in components

----------------------------------------------------------------------------
(* Claims about missing elements, the default tab and the public API *)

\* C15: whatever elements the markup lacks, no operation (startup, a click,
\* scrollToTop(), openMobileMenu(), switchTab(name)) ends with an exception
\* raised on a missing element.
C15_MissingHooksSilent == ~nullDeref

\* the widget ProductTabs is stored in the composer
TabsInitialized == "productTabs" \in components

\* what initializeComponents must leave behind for the tab controls and the
\* render region
DefaultTabRendered ==
    /\ tabActive' = tabActive
    /\ IF DefaultButtonIndex # 0
          THEN /\ selected'
               /\ gridPresent =>
                     grid' = CardsOf(TableOf(DataTab[TabOrder[DefaultButtonIndex]]))
          ELSE /\ ~selected'
               /\ grid' = grid

\* C19: initializeComponents renders a category exactly when a tab control is
\* marked active in the markup: the region then holds the cards of the key of
\* (the first) such control and no control's marking changes; with no control
\* marked active the region is left as it is.
C19_DefaultTab == [][InitializeComponents => DefaultTabRendered]_vars

\* what switchTab(name) must leave behind
ApiSwitchTabDone(name) ==
    /\ ~opThrew'
    /\ IF QueryDataTab(name) # 0 /\ TabsInitialized
          THEN /\ tabActive' = {TabOrder[QueryDataTab(name)]}
               /\ gridPresent => grid' = CardsOf(TableOf(name))
          ELSE UNCHANGED <<tabActive, grid>>

\* C20: switchTab(name) never throws; when an element carries data-tab = name
\* and the widgets are initialized, that element ends as the only one marked
\* active and the region holds the cards of that key, as after a click on it;
\* otherwise nothing changes; and after any interleaving of clicks and API
\* calls at most one tab control is marked active.
C20_ApiLikeClick ==
    /\ [](selectedBy \in {"click", "api"} => Cardinality(tabActive) <= 1)
    /\ [][\A name \in ApiNames : ApiSwitchTab(name) => ApiSwitchTabDone(name)]_vars

----------------------------------------------------------------------------
(* Claims about FormHandler *)

\* the notifications of a severity caused by submit event i
NotesOf(i, type) == {j \in DOMAIN notes : notes[j].by = i /\ notes[j].type = type}

\* the pending timers of the simulated request
SubmitTimers(ts) == {tm \in ts : tm.args.kind = "submitDone"}

\* C11: a submit event with an empty name or an empty phone, on a form that
\* has its inputs, adds exactly one error notification within the handler,
\* starts no 1 s timer, leaves the submit control's label and disabled state
\* as they were and leaves the typed values in the inputs.
C11_InvalidSubmit ==
    [][\A name \in Names, phone \in Phones :
          (/\ inputsPresent
           /\ name = "" \/ phone = ""
           /\ HandleConsultationSubmit(name, phone)) =>
             /\ Len(notes') = Len(notes) + 1
             /\ notes'[Len(notes')].type = "error"
             /\ notes'[Len(notes')].created = now
             /\ notes'[Len(notes')].inDom
             /\ SubmitTimers(timers') = SubmitTimers(timers)
             /\ btnText' = btnText /\ btnDisabled' = btnDisabled
             /\ nameField' = name /\ phoneField' = phone
             /\ submits'[Len(submits')].outcome = "rejected"]_vars

\* a submit with a name and no phone was rejected: its error notification is
\* there, the name is still in the input and the control is as in the markup
C11_Witness ==
    /\ Len(submits) = 1 /\ submits[1].outcome = "rejected"
    /\ nameField = "A" /\ phoneField = ""
    /\ Cardinality(NotesOf(1, "error")) = 1
    /\ SubmitTimers(timers) = {}
    /\ btnText = OriginalLabel /\ ~btnDisabled

\* the submit events that entered the simulated request
Accepted == {i \in DOMAIN submits : submits[i].outcome \in {"pending", "done", "error"}}

\* C12: a submit event with a non-empty name and phone, on a form that has its
\* inputs and its submit button, disables the button at once and shows no
\* notification yet; no success notification exists before 1000 ms have
\* passed; after them there is exactly one, created at that instant, and the
\* continuation that creates it empties the inputs, enables the button and
\* gives it back the label of the markup.
C12_ValidSubmit ==
    /\ [][\A name \in Names, phone \in Phones :
             (/\ inputsPresent /\ submitBtnPresent
              /\ name # "" /\ phone # ""
              /\ HandleConsultationSubmit(name, phone)) =>
                 /\ btnDisabled'
                 /\ notes' = notes]_vars
    /\ [](submitBtnPresent =>
             \A i \in Accepted :
                /\ now < submits[i].t + SubmitLatency => NotesOf(i, "success") = {}
                /\ now > submits[i].t + SubmitLatency =>
                      Cardinality(NotesOf(i, "success")) = 1
                /\ \A j \in NotesOf(i, "success") :
                      notes[j].created = submits[i].t + SubmitLatency)
    /\ [][SubmitResume =>
             /\ nameField' = "" /\ phoneField' = ""
             /\ ~btnDisabled'
             /\ btnText' = OriginalLabel]_vars

\* the instant at which a notification has to be gone: 300 ms after its first
\* dismissal, which is its close click or the end of its 5000 ms
Deadline(n) ==
    (IF n.closedAt # Null /\ n.closedAt < n.created + AutoRemoveDelay
        THEN n.closedAt ELSE n.created + AutoRemoveDelay) + ExitDelay

\* the pending timers of notification j
TimersOf(ts, j) ==
    {tm \in ts : tm.args.kind \in {"animateIn", "autoRemove", "detach"} /\ tm.args.ref = j}

\* C13: every notification leaves the document: while it is in the document
\* the clock has not passed its deadline and a timer that leads to its removal
\* is pending; once gone it was removed at its deadline, exactly once, however
\* many removal timers (close click and auto-dismiss) fired for it.
C13_Transient ==
    \A j \in DOMAIN notes :
       LET n == notes[j] IN
       /\ n.removals <= 1
       /\ n.attempts >= n.removals
       /\ n.inDom <=> n.removals = 0
       /\ n.inDom =>
             /\ n.removedAt = Null
             /\ now <= Deadline(n)
             /\ \E tm \in TimersOf(timers, j) :
                   \/ tm.args.kind = "autoRemove" /\ tm.due = n.created + AutoRemoveDelay
                   \/ tm.args.kind = "detach" /\ tm.due = Deadline(n)
       /\ ~n.inDom => n.removedAt = Deadline(n)

\* a notification was closed by a click, its auto-dismiss timer fired too, and
\* both removal timers have run: one removal, one no-op
C13_Witness ==
    \E j \in DOMAIN notes :
       /\ notes[j].closedAt # Null
       /\ notes[j].attempts = 2
       /\ notes[j].removals = 1
       /\ notes[j].removedAt = notes[j].closedAt + ExitDelay
       /\ now >= notes[j].created + AutoRemoveDelay + ExitDelay

\* a step changes notification j or its timers
Touched(j) ==
    notes'[j] # notes[j] \/ TimersOf(timers', j) # TimersOf(timers, j)

\* C14: every showNotification call adds an element of its own with timers of
\* its own: a notification that was neither closed nor reached its 5000 ms is
\* in the document whatever happened to the others; a step that adds
\* notifications touches no existing one, and a step that touches an existing
\* notification (its close click or one of its timers) touches no other.
C14_Independent ==
    /\ [](\A j \in DOMAIN notes :
             (notes[j].closedAt = Null /\ now < notes[j].created + AutoRemoveDelay) =>
                /\ notes[j].inDom
                /\ \E tm \in TimersOf(timers, j) :
                      tm.args.kind = "autoRemove" /\ tm.due = notes[j].created + AutoRemoveDelay)
    /\ [][/\ Len(notes') >= Len(notes)
          /\ \A j \in DOMAIN notes :
                Touched(j) =>
                   /\ Len(notes') = Len(notes)
                   /\ \A k \in DOMAIN notes \ {j} : ~Touched(k)]_vars

\* two notifications created at different times: the first has been removed at
\* its own deadline while the second is still in the document
C14_Witness ==
    /\ Len(notes) >= 2
    /\ notes[1].created < notes[2].created
    /\ notes[2].created < Deadline(notes[1])
    /\ ~notes[1].inDom /\ notes[1].removedAt = Deadline(notes[1])
    /\ notes[2].inDom /\ notes[2].closedAt = Null

\* C17: on a form whose submissions all ran to the end without an exception,
\* once no submission is pending the submit button is enabled and shows the
\* label of the markup, and every accepted submission has produced exactly one
\* success notification.
C17_AffordanceRestored ==
    (/\ submitBtnPresent
     /\ \A i \in DOMAIN submits : submits[i].outcome \in {"rejected", "done"}) =>
        /\ ~btnDisabled
        /\ btnText = OriginalLabel
        /\ \A i \in Accepted : Cardinality(NotesOf(i, "success")) = 1

\* C18: a submission whose path threw has exactly one error notification, no
\* success notification and no timer left; and once no submission is pending
\* the submit button, when the form has one, is enabled and does not show the
\* loading label.
C18_ThrowHandled ==
    \A i \in DOMAIN submits :
       submits[i].outcome = "error" =>
          /\ Cardinality(NotesOf(i, "error")) = 1
          /\ NotesOf(i, "success") = {}
          /\ \A tm \in SubmitTimers(timers) : tm.args.ref # i
          /\ (submitBtnPresent /\ \A k \in DOMAIN submits : submits[k].outcome # "pending") =>
                /\ ~btnDisabled
                /\ btnText # LoadingLabel

----------------------------------------------------------------------------
(* Claims about the mobile menu and about what touches the tabs *)

\* C21: after any sequence of toggle clicks, nav-link clicks, outside clicks
\* and openMobileMenu() calls the nav list and the menu toggle carry 'active'
\* together or not at all; a toggle click flips both, and a nav-link click or
\* an outside click leaves both without it.
C21_MenuConsistent ==
    /\ [](navListActive = menuToggleActive)
    /\ [][ToggleClick =>
             /\ navListActive' = ~navListActive
             /\ menuToggleActive' = ~menuToggleActive]_vars
    /\ [][(OutsideClick \/ \E l \in NavLinks : NavLinkClick(l)) =>
             /\ ~navListActive'
             /\ ~menuToggleActive']_vars

\* a tab selection: a click on a tab control, or a call of switchTab()
TabSelection ==
    \/ \E b \in TabButtons : ClickTab(b)
    \/ \E name \in ApiNames : ApiSwitchTab(name)

\* the operations of the page that are no tab selection: scroll and resize
\* events and their timers, the menu, the nav links, the form, the
\* notifications and every timer expiry
OtherOperation ==
    \/ \E pos \in Positions : ScrollEvent(pos)
    \/ ScrollTimer \/ ResizeEvent \/ ResizeTimer
    \/ ToggleClick \/ OutsideClick \/ ApiOpenMobileMenu \/ ApiScrollToTop
    \/ \E l \in NavLinks : NavLinkClick(l)
    \/ \E name \in Names, phone \in Phones : HandleConsultationSubmit(name, phone)
    \/ SubmitResume
    \/ AnimateIn \/ AutoRemove \/ DetachTimer
    \/ \E i \in DOMAIN notes : CloseNotification(i)
    \/ Advance

\* C22: the set of active tab controls is changed only by a tab selection,
\* and the rendered cards only by a tab selection or by the rendering at
\* startup; scroll and resize events, menu toggling, nav-link clicks, form
\* submission, showing and dismissing a notification and timer expiries leave
\* both unchanged.
C22_TabFrame ==
    /\ [][tabActive' = tabActive \/ TabSelection]_vars
    /\ [][grid' = grid \/ TabSelection \/ InitializeComponents]_vars
    /\ [][UNCHANGED <<tabActive, grid>> \/ ~OtherOperation]_vars

\* a nav link was clicked after a tab was selected by a click, and the tab
\* clicked is still the only active one
C22_Witness ==
    /\ lastOp = "navLinkClick"
    /\ navLinkActive # {}
    /\ selected /\ selectedBy = "click"
    /\ tabActive = {lastClicked}
    /\ grid # <<StaleCard>>

====
